---- MODULE Spec2Model ----
(***************************************************************************)
(* Model of the gspot tokenizer (src/src/token/mod.rs).                    *)
(*                                                                         *)
(* A character is a one-character string; the few characters that have no  *)
(* string escape are named by a short mnemonic (VT).  A Rust String or a   *)
(* Vec<char> is a sequence of characters.  An Option<T> is a sequence of   *)
(* length at most one: <<>> is None and <<x>> is Some(x).                  *)
(*                                                                         *)
(* The payload of Token::Int is a usize.  usize::MAX (2^64 - 1) is outside *)
(* the range of the model checker's integers, so a usize is held as its    *)
(* decimal numeral without leading zeros.                                  *)
(*                                                                         *)
(* code, chars, prev, out, last, status and calls are one lexer and its    *)
(* caller; peers holds further lexer instances, repl the calls made of     *)
(* Repl::line (src/src/repl/mod.rs) and shell the loop of main             *)
(* (src/src/bin/repl.rs).  A specification that has no use for one of      *)
(* them leaves it empty.                                                   *)
(***************************************************************************)
EXTENDS Integers, Sequences, FiniteSets, TLC

VARIABLES code, chars, prev, out, last, status, calls, peers, repl, shell

\* one lexer and its caller
lexer == <<code, chars, prev, out, last, status, calls>>

vars == <<lexer, peers, repl, shell>>

\* ------------------------------------------------------------------------
\* Bounds of the model
\* ------------------------------------------------------------------------

\* an input is the concatenation of at most MaxChunks chunks
MaxChunks == 3

\* the caller makes at most ExtraCalls calls of next() beyond one call for
\* each character of the input and one more
ExtraCalls == 2

\* a line given to Repl::line or read by main is the concatenation of at
\* most MaxLineChunks chunks
MaxLineChunks == 2

\* Repl::line is called at most MaxLines times
MaxLines == 2

\* main reads its standard input at most MaxReads times
MaxReads == 2

\* ------------------------------------------------------------------------
\* Characters and the char predicates of the standard library
\* ------------------------------------------------------------------------

VT == "VT"
FF == "\f"

\* char::is_digit(10)
IsDigit == {"0", "1", "2", "3", "4", "5", "6", "7", "8", "9"}

\* char::is_ascii_alphabetic
IsAsciiAlphabetic ==
    {"a", "b", "c", "d", "e", "f", "g", "h", "i", "j", "k", "l", "m",
     "n", "o", "p", "q", "r", "s", "t", "u", "v", "w", "x", "y", "z",
     "A", "B", "C", "D", "E", "F", "G", "H", "I", "J", "K", "L", "M",
     "N", "O", "P", "Q", "R", "S", "T", "U", "V", "W", "X", "Y", "Z"}

\* IsWhitespace with the separators U+001C..U+001F taken for whitespace
IsWhitespace_separators ==
    {" ", "\t", "\n", VT, FF, "\r", "FS", "GS", "RS", "US"}

\* char::is_whitespace, restricted to the characters below U+0080
IsWhitespace == {" ", "\t", "\n", VT, FF, "\r"}

\* char::to_digit(10) on a decimal digit
ToDigit(c) ==
    CASE c = "0" -> 0 [] c = "1" -> 1 [] c = "2" -> 2 [] c = "3" -> 3
      [] c = "4" -> 4 [] c = "5" -> 5 [] c = "6" -> 6 [] c = "7" -> 7
      [] c = "8" -> 8 [] c = "9" -> 9

\* ------------------------------------------------------------------------
\* Tokens
\* ------------------------------------------------------------------------

\* a Token: its variant and its payload (empty for the payload-free variants)
Tok(variant) == [type |-> variant, text |-> <<>>]
Identifier(s) == [type |-> "Identifier", text |-> s]
TokenInt(n) == [type |-> "Int", text |-> n]

\* KEYWORDS with "fn" entered as "fun"
KEYWORDS_fun ==
    (<<"t", "r", "u", "e">> :> Tok("True")) @@
    (<<"f", "a", "l", "s", "e">> :> Tok("False")) @@
    (<<"f", "u", "n">> :> Tok("Function")) @@
    (<<"l", "e", "t">> :> Tok("Let")) @@
    (<<"i", "f">> :> Tok("If")) @@
    (<<"e", "l", "s", "e">> :> Tok("Else")) @@
    (<<"r", "e", "t", "u", "r", "n">> :> Tok("Return"))

KEYWORDS ==
    (<<"t", "r", "u", "e">> :> Tok("True")) @@
    (<<"f", "a", "l", "s", "e">> :> Tok("False")) @@
    (<<"f", "n">> :> Tok("Function")) @@
    (<<"l", "e", "t">> :> Tok("Let")) @@
    (<<"i", "f">> :> Tok("If")) @@
    (<<"e", "l", "s", "e">> :> Tok("Else")) @@
    (<<"r", "e", "t", "u", "r", "n">> :> Tok("Return"))

\* ------------------------------------------------------------------------
\* str::parse::<usize>
\* ------------------------------------------------------------------------

\* the decimal numeral of usize::MAX = 2^64 - 1
USIZE_MAX ==
    <<"1", "8", "4", "4", "6", "7", "4", "4", "0", "7",
      "3", "7", "0", "9", "5", "5", "1", "6", "1", "5">>

RECURSIVE StripZeros(_)
\* the numeral without its leading zeros ("0" for a run of zeros)
StripZeros(s) ==
    IF Len(s) > 1 /\ Head(s) = "0" THEN StripZeros(Tail(s)) ELSE s

RECURSIVE LexLe(_, _)
\* a <= b for two numerals of the same length
LexLe(a, b) ==
    IF a = <<>> THEN TRUE
    ELSE IF ToDigit(Head(a)) < ToDigit(Head(b)) THEN TRUE
    ELSE IF ToDigit(Head(a)) > ToDigit(Head(b)) THEN FALSE
    ELSE LexLe(Tail(a), Tail(b))

\* the number denoted by a numeral without leading zeros fits a usize
FitsUsize(n) ==
    \/ Len(n) < Len(USIZE_MAX)
    \/ Len(n) = Len(USIZE_MAX) /\ LexLe(n, USIZE_MAX)

\* str::parse::<usize> on a non-empty string of decimal digits:
\* Ok(value) or Err(PosOverflow)
ParseUsize(s) ==
    LET n == StripZeros(s)
    IN  IF FitsUsize(n) THEN [ok |-> TRUE, value |-> n]
        ELSE [ok |-> FALSE, value |-> <<>>]

\* ------------------------------------------------------------------------
\* Peekable<Chars>: iter is the text Chars has not yielded yet, peeked is
\* the Option<Option<char>> lookahead slot of Peekable
\* ------------------------------------------------------------------------

\* Chars::next on the text rest: the new rest and the Option<char> yielded
CharsNext(rest) ==
    IF rest = <<>> THEN [iter |-> rest, ret |-> <<>>]
    ELSE [iter |-> Tail(rest), ret |-> <<Head(rest)>>]

\* Peekable::next
PeekableNext(p) ==
    IF p.peeked # <<>>
    THEN [p |-> [iter |-> p.iter, peeked |-> <<>>], ret |-> p.peeked[1]]
    ELSE LET r == CharsNext(p.iter)
         IN  [p |-> [iter |-> r.iter, peeked |-> <<>>], ret |-> r.ret]

\* Peekable::peek
PeekablePeek(p) ==
    IF p.peeked # <<>>
    THEN [p |-> p, ret |-> p.peeked[1]]
    ELSE LET r == CharsNext(p.iter)
         IN  [p |-> [iter |-> r.iter, peeked |-> <<r.ret>>], ret |-> r.ret]

\* Peekable::next_if(f), f given as the set of characters it accepts
PeekableNextIf(p, f) ==
    LET r == PeekableNext(p)
    IN  IF r.ret # <<>> /\ r.ret[1] \in f
        THEN r
        ELSE [p |-> [iter |-> r.p.iter, peeked |-> <<r.ret>>], ret |-> <<>>]

\* ------------------------------------------------------------------------
\* Lexer
\* ------------------------------------------------------------------------

\* Lexer::new
new(c) == [iter |-> c, peeked |-> <<>>]

\* Lexer::peek
peek(p) == PeekablePeek(p)

\* read_char looking at the character without taking it
read_char_peek(p) == PeekablePeek(p)

\* Lexer::read_char
read_char(p) == PeekableNext(p)

\* skip_whitespace with `if let` for `while let`
skip_whitespace_once(p) == PeekableNextIf(p, IsWhitespace).p

RECURSIVE skip_whitespace(_)
\* Lexer::skip_whitespace
skip_whitespace(p) ==
    LET r == PeekableNextIf(p, IsWhitespace)
    IN  IF r.ret # <<>> THEN skip_whitespace(r.p) ELSE r.p

RECURSIVE keep_reading_loop_take(_, _, _)
\* keep_reading_loop taking the character that ends the run out of the input
keep_reading_loop_take(p, acc, f) ==
    LET r == PeekableNext(p)
    IN  IF r.ret # <<>> /\ r.ret[1] \in f
        THEN keep_reading_loop_take(r.p, Append(acc, r.ret[1]), f)
        ELSE [p |-> r.p, ret |-> acc]

RECURSIVE keep_reading_loop(_, _, _)
\* the while loop of Lexer::keep_reading
keep_reading_loop(p, acc, f) ==
    LET r == PeekableNextIf(p, f)
    IN  IF r.ret # <<>> THEN keep_reading_loop(r.p, Append(acc, r.ret[1]), f)
        ELSE [p |-> r.p, ret |-> acc]

\* keep_reading without its loop
keep_reading_once(p, c, f) == [p |-> p, ret |-> <<c>>]

\* Lexer::keep_reading
keep_reading(p, c, f) == keep_reading_loop(p, <<c>>, f)

\* the outcomes of a next() call: the lexer afterwards and either the
\* Option<Token> returned or a panic
Return(p, t) == [p |-> p, ret |-> t, panic |-> FALSE]
Panic(p) == [p |-> p, ret |-> <<>>, panic |-> TRUE]

\* single_arm taking `++` for one Plus
single_arm_increment(p, variant) ==
    LET k == peek(p)
    IN  IF variant = "Plus" /\ k.ret = <<"+">>
        THEN Return(read_char(k.p).p, <<Tok(variant)>>)
        ELSE Return(k.p, <<Tok(variant)>>)

\* single_arm taking `<=` and `>=` for one comparison token
single_arm_or_equal(p, variant) ==
    LET k == peek(p)
    IN  IF variant \in {"Lt", "Gt"} /\ k.ret = <<"=">>
        THEN Return(read_char(k.p).p, <<Tok(variant)>>)
        ELSE Return(k.p, <<Tok(variant)>>)

\* the arms of Lexer::next that return the token of the character read
single_arm(p, variant) == Return(p, <<Tok(variant)>>)

\* illegal_arm giving up on the rest of the input
illegal_arm_give_up(p) ==
    Return([iter |-> <<>>, peeked |-> <<>>], <<Tok("Illegal")>>)

\* illegal_arm ending the sequence at the character it cannot place
illegal_arm_end(p) == Return(p, <<>>)

\* the arm `Some(_)` of Lexer::next
illegal_arm(p) == Return(p, <<Tok("Illegal")>>)

\* the arm `_` of Lexer::next: read_char returned None
end_arm(p) == Return(p, <<>>)

\* lookahead_arm reading the following character where it should peek
lookahead_arm_read(p, two, one) ==
    LET k == read_char(p)
    IN  IF k.ret # <<>> /\ k.ret[1] = "="
        THEN Return(k.p, <<Tok(two)>>)
        ELSE Return(k.p, <<Tok(one)>>)

\* lookahead_arm looking for its `=` past whitespace
lookahead_arm_spaced(p, two, one) ==
    LET k == peek(skip_whitespace(p))
    IN  IF k.ret # <<>> /\ k.ret[1] = "="
        THEN Return(read_char(k.p).p, <<Tok(two)>>)
        ELSE Return(k.p, <<Tok(one)>>)

\* lookahead_arm pairing with a following `=` only where no further `=`
\* comes after it
lookahead_arm_lazy(p, two, one) ==
    LET k == peek(p)
        m == peek(read_char(k.p).p)
    IN  IF k.ret = <<"=">> /\ m.ret # <<"=">>
        THEN Return(read_char(k.p).p, <<Tok(two)>>)
        ELSE Return(k.p, <<Tok(one)>>)

\* the arms `!` and `=` of Lexer::next: c was read, two is the token of c
\* followed by `=` and one the token of c alone
lookahead_arm(p, two, one) ==
    LET k == peek(p)
    IN  IF k.ret # <<>> /\ k.ret[1] = "="
        THEN Return(read_char(k.p).p, <<Tok(two)>>)
        ELSE Return(k.p, <<Tok(one)>>)

\* the digit arm of Lexer::next
digit_arm(p, c) ==
    LET r == keep_reading(p, c, IsDigit)
        n == ParseUsize(r.ret)
    IN  IF n.ok THEN Return(r.p, <<TokenInt(n.value)>>) ELSE Panic(r.p)

\* alpha_arm reading digits and underscores into the word
alpha_arm_alnum(p, c) ==
    LET r == keep_reading(p, c, IsAsciiAlphabetic \cup IsDigit \cup {"_"})
        ident == r.ret
    IN  IF ident \in DOMAIN KEYWORDS
        THEN Return(r.p, <<KEYWORDS[ident]>>)
        ELSE Return(r.p, <<Identifier(ident)>>)

\* alpha_arm without the lookup in KEYWORDS
alpha_arm_no_lookup(p, c) ==
    LET r == keep_reading(p, c, IsAsciiAlphabetic)
    IN  Return(r.p, <<Identifier(r.ret)>>)

\* the letter arm of Lexer::next
alpha_arm(p, c) ==
    LET r == keep_reading(p, c, IsAsciiAlphabetic)
        ident == r.ret
    IN  IF ident \in DOMAIN KEYWORDS
        THEN Return(r.p, <<KEYWORDS[ident]>>)
        ELSE Return(r.p, <<Identifier(ident)>>)

\* Iterator::next for Lexer
next(p0) ==
    LET s == skip_whitespace(p0)
        r == read_char(s)
        p == r.p
        c == r.ret[1]
    IN  IF r.ret = <<>> THEN end_arm(p)
        ELSE CASE c = "*" -> single_arm(p, "Asterisk")
               [] c = "!" -> lookahead_arm(p, "NotEqual", "Bang")
               [] c = "/" -> single_arm(p, "Slash")
               [] c = ">" -> single_arm(p, "Gt")
               [] c = "<" -> single_arm(p, "Lt")
               [] c = "-" -> single_arm(p, "Minus")
               [] c = "+" -> single_arm(p, "Plus")
               [] c = "," -> single_arm(p, "Comma")
               [] c = "=" -> lookahead_arm(p, "Equal", "Assign")
               [] c = ";" -> single_arm(p, "Semicolon")
               [] c = "(" -> single_arm(p, "Lparen")
               [] c = ")" -> single_arm(p, "Rparen")
               [] c = "{" -> single_arm(p, "Lsquirlybrace")
               [] c = "}" -> single_arm(p, "Rsquirlybrace")
               [] OTHER ->
                    IF c \in IsDigit THEN digit_arm(p, c)
                    ELSE IF c \in IsAsciiAlphabetic THEN alpha_arm(p, c)
                    ELSE illegal_arm(p)

\* ------------------------------------------------------------------------
\* Inputs
\* ------------------------------------------------------------------------

\* the numeral of usize::MAX + 1
USIZE_MAX_PLUS_1 ==
    <<"1", "8", "4", "4", "6", "7", "4", "4", "0", "7",
      "3", "7", "0", "9", "5", "5", "1", "6", "1", "6">>

\* Every input is a concatenation of chunks: single characters, the
\* reserved words and their near misses, the numerals around usize::MAX.
\* Each specification draws its chunks from one of the four sets below.

Char(S) == {<<c>> : c \in S}

\* operators and punctuation, with one digit, letter, illegal character
\* and two kinds of whitespace as neighbours
OpChunks ==
    Char({"*", "!", "/", ">", "<", "-", "+", ",", "=", ";", "(", ")", "{", "}",
          "5", "a", "@", " ", "\n"})

\* words
WordChunks ==
    DOMAIN KEYWORDS
    \cup {<<"l", "e">>, <<"L", "e", "t">>}
    \cup Char({"a", "b", "x", "1", "_", " ", ";", "="})

\* numbers
NumChunks ==
    {USIZE_MAX, USIZE_MAX_PLUS_1}
    \cup Char({"0", "1", "5", "7", "a", " ", "\n", ";", "=", "!", "@", "-"})

\* some of everything
MixChunks ==
    {<<"l", "e", "t">>, USIZE_MAX_PLUS_1}
    \cup Char({"!", "=", ";", "<", "0", "5", "a",
               " ", "\t", "\n", "\r", VT, FF, "@", "#", "_"})

RECURSIVE Concats(_, _)
\* the concatenations of at most n chunks of C
Concats(C, n) ==
    IF n = 0 THEN {<<>>}
    ELSE LET S == Concats(C, n - 1) IN S \cup {s \o c : s \in S, c \in C}

\* ------------------------------------------------------------------------
\* The state machine: one lexer over one input, pulled by its caller
\* ------------------------------------------------------------------------

\* the text the lexer has not consumed: the peeked character, if any,
\* followed by what Chars still holds
Unconsumed(p) ==
    (IF p.peeked # <<>> THEN p.peeked[1] ELSE <<>>) \o p.iter

\* let lexer = Lexer::new(input), for an input made of the chunks C
InitOver(C) ==
    /\ code \in Concats(C, MaxChunks)
    /\ chars = new(code)
    /\ prev = new(code)
    /\ out = <<>>
    /\ last = <<>>
    /\ status = "new"
    /\ calls = 0
    /\ peers = <<>>
    /\ repl = <<>>
    /\ shell = <<>>

\* one call of lexer.next() by the caller, which pushes a returned token
\* onto its Vec; a panic unwinds the caller
LexerNext ==
    /\ status # "panic"
    /\ calls < Len(code) + 1 + ExtraCalls
    /\ calls' = calls + 1
    /\ LET r == next(chars)
       IN  /\ chars' = r.p
           /\ prev' = chars
           /\ out' = out \o r.ret
           /\ last' = r.ret
           /\ status' = IF r.panic THEN "panic"
                        ELSE IF r.ret = <<>> THEN "none" ELSE "some"
    /\ UNCHANGED <<code, peers, repl, shell>>

Next == LexerNext

Init == InitOver(MixChunks)
InitOps == InitOver(OpChunks)
InitWords == InitOver(WordChunks)
InitNums == InitOver(NumChunks)

Spec == Init /\ [][Next]_vars
SpecOps == InitOps /\ [][Next]_vars
SpecWords == InitWords /\ [][Next]_vars
SpecNums == InitNums /\ [][Next]_vars

\* ------------------------------------------------------------------------
\* What the claims speak of
\* ------------------------------------------------------------------------

RECURSIVE TakeWhile(_, _)
\* the longest prefix of s made of characters of F
TakeWhile(s, F) ==
    IF s # <<>> /\ Head(s) \in F THEN <<Head(s)>> \o TakeWhile(Tail(s), F)
    ELSE <<>>

RECURSIVE DropWhile(_, _)
\* s without its longest prefix made of characters of F
DropWhile(s, F) ==
    IF s # <<>> /\ Head(s) \in F THEN DropWhile(Tail(s), F) ELSE s

RECURSIVE Runs(_, _)
\* the maximal runs of characters of F in s, in order
Runs(s, F) ==
    IF s = <<>> THEN <<>>
    ELSE IF Head(s) \in F
         THEN <<TakeWhile(s, F)>> \o Runs(DropWhile(s, F), F)
         ELSE Runs(Tail(s), F)

RECURSIVE Value(_)
\* the number a string of decimal digits denotes
Value(s) ==
    IF s = <<>> THEN 0
    ELSE 10 * Value(SubSeq(s, 1, Len(s) - 1)) + ToDigit(s[Len(s)])

\* next() has been called
Called == status # "new"

\* the text at the cursor of the last next() call once that call has
\* skipped the whitespace
AtCursor == Unconsumed(skip_whitespace(prev))

\* the text the last next() call left unconsumed
Rest == Unconsumed(chars)

\* the following next() call behaves as the first call of a lexer over t
ContinuesWith(t) ==
    LET a == next(chars)
        b == next(new(t))
    IN  a.ret = b.ret /\ a.panic = b.panic

\* the tokens of the variants V among the tokens produced
Produced(V) == SelectSeq(out, LAMBDA t : t.type \in V)

\* C1: when next() reads `!` or `=` it returns NotEqual or Equal and
\* consumes two characters exactly when the following character is `=`;
\* otherwise, also at the end of the input, it returns Bang or Assign,
\* consumes that one character, and the following character starts the next
\* token.
C1_LookaheadOperators ==
    LET cur == AtCursor
    IN  (Called /\ cur # <<>> /\ cur[1] \in {"!", "="}) =>
            IF Len(cur) >= 2 /\ cur[2] = "="
            THEN /\ last = <<Tok(IF cur[1] = "!" THEN "NotEqual" ELSE "Equal")>>
                 /\ Rest = SubSeq(cur, 3, Len(cur))
            ELSE /\ last = <<Tok(IF cur[1] = "!" THEN "Bang" ELSE "Assign")>>
                 /\ Rest = Tail(cur)
                 /\ ContinuesWith(Tail(cur))

\* `!5` has been drained to Bang, Int(5)
C1_Witness ==
    /\ code = <<"!", "5">>
    /\ status = "none"
    /\ out = <<Tok("Bang"), TokenInt(<<"5">>)>>

\* C2: a maximal run of decimal digits whose value fits a usize gives one
\* Int token for the whole run, carrying the value of the run whatever its
\* leading zeros, and the character that ends the run is not consumed; a
\* drained input has as many Int tokens as maximal digit runs.
C2_DigitRuns ==
    LET cur == AtCursor
        run == TakeWhile(cur, IsDigit)
    IN  /\ (Called /\ cur # <<>> /\ cur[1] \in IsDigit
                /\ FitsUsize(StripZeros(run))) =>
              /\ status = "some"
              /\ last[1].type = "Int"
              /\ last[1].text = StripZeros(run)
              /\ Len(run) < 10 => Value(last[1].text) = Value(run)
              /\ Rest = DropWhile(cur, IsDigit)
        /\ status = "none" =>
              LET ints == Produced({"Int"})
                  runs == Runs(code, IsDigit)
              IN  /\ Len(ints) = Len(runs)
                  /\ \A i \in 1..Len(runs) : ints[i].text = StripZeros(runs[i])

\* `007` has been drained to Int(7)
C2_Witness ==
    /\ code = <<"0", "0", "7">>
    /\ status = "none"
    /\ out = <<TokenInt(<<"7">>)>>
    /\ Value(out[1].text) = 7

\* the variants of the reserved words
KeywordVariants ==
    {"True", "False", "Function", "Let", "If", "Else", "Return"}

\* C3: a maximal run of ASCII letters gives one token for the whole run, a
\* keyword or an Identifier carrying the run; a digit or an underscore ends
\* the run and is not consumed: `a1` is Identifier(a), Int(1) and `a_b` is
\* Identifier(a), Illegal, Identifier(b).
C3_LetterRuns ==
    LET cur == AtCursor
        run == TakeWhile(cur, IsAsciiAlphabetic)
    IN  /\ (Called /\ cur # <<>> /\ cur[1] \in IsAsciiAlphabetic) =>
              /\ status = "some"
              /\ \/ last[1].type \in KeywordVariants
                 \/ last[1] = Identifier(run)
              /\ Rest = DropWhile(cur, IsAsciiAlphabetic)
        /\ status = "none" =>
              Len(Produced(KeywordVariants \cup {"Identifier"}))
                  = Len(Runs(code, IsAsciiAlphabetic))
        /\ (status = "none" /\ code = <<"a", "1">>) =>
              out = <<Identifier(<<"a">>), TokenInt(<<"1">>)>>
        /\ (status = "none" /\ code = <<"a", "_", "b">>) =>
              out = <<Identifier(<<"a">>), Tok("Illegal"), Identifier(<<"b">>)>>

\* `a_b` has been drained to three tokens
C3_Witness ==
    /\ code = <<"a", "_", "b">>
    /\ status = "none"
    /\ Len(out) = 3

\* the token of a reserved word, as the specification lists them
ReservedWord(w) ==
    CASE w = <<"t", "r", "u", "e">> -> <<Tok("True")>>
      [] w = <<"f", "a", "l", "s", "e">> -> <<Tok("False")>>
      [] w = <<"f", "n">> -> <<Tok("Function")>>
      [] w = <<"l", "e", "t">> -> <<Tok("Let")>>
      [] w = <<"i", "f">> -> <<Tok("If")>>
      [] w = <<"e", "l", "s", "e">> -> <<Tok("Else")>>
      [] w = <<"r", "e", "t", "u", "r", "n">> -> <<Tok("Return")>>
      [] OTHER -> <<>>

\* C4: a maximal letter run that is one of the seven reserved words gives
\* the token of that word and never an Identifier; any other letter run
\* (longer, a proper prefix, another case) gives an Identifier carrying it.
C4_KeywordPrecedence ==
    LET cur == AtCursor
        run == TakeWhile(cur, IsAsciiAlphabetic)
    IN  (Called /\ cur # <<>> /\ cur[1] \in IsAsciiAlphabetic) =>
            IF ReservedWord(run) # <<>>
            THEN last = ReservedWord(run)
            ELSE last = <<Identifier(run)>>

\* `let=Let` has been drained: the reserved word gave Let, the same word in
\* another case an Identifier
C4_Witness ==
    /\ code = <<"l", "e", "t", "=", "L", "e", "t">>
    /\ status = "none"
    /\ out = <<Tok("Let"), Tok("Assign"), Identifier(<<"L", "e", "t">>)>>

\* the characters the specification names as whitespace
SpecWhitespace == {" ", "\t", "\n", "\r"}

\* the token of a punctuation character
PunctToken(c) ==
    CASE c = "*" -> Tok("Asterisk")
      [] c = ";" -> Tok("Semicolon")
      [] c = "(" -> Tok("Lparen")
      [] c = ")" -> Tok("Rparen")
      [] c = "{" -> Tok("Lsquirlybrace")
      [] c = "}" -> Tok("Rsquirlybrace")
      [] c = "," -> Tok("Comma")
      [] c = "+" -> Tok("Plus")
      [] c = "-" -> Tok("Minus")
      [] c = "/" -> Tok("Slash")

PunctChars == {"*", ";", "(", ")", "{", "}", ",", "+", "-", "/"}

\* the text consumed so far
Consumed == SubSeq(code, 1, Len(code) - Len(Rest))

\* one token per character of s that is no whitespace, in order
PunctTokens(s) ==
    LET t == SelectSeq(s, LAMBDA c : c \notin SpecWhitespace)
    IN  [i \in 1..Len(t) |-> PunctToken(t[i])]

\* C5: over an input made only of the characters * ; ( ) { } , + - / and
\* whitespace, the tokens produced are one token per character consumed that
\* is no whitespace, in input order, each the token of its character, and
\* the drain consumes the whole input.
C5_Punctuation ==
    (\A i \in 1..Len(code) : code[i] \in PunctChars \cup SpecWhitespace) =>
        /\ status # "panic"
        /\ out = PunctTokens(Consumed)
        /\ status = "none" => Rest = <<>> /\ out = PunctTokens(code)

\* `/ *` has been drained to Slash, Asterisk
C5_Witness ==
    /\ code = <<"/", " ", "*">>
    /\ status = "none"
    /\ out = <<Tok("Slash"), Tok("Asterisk")>>

\* C6: `<` gives Lt and `>` gives Gt, each consuming one character and
\* never merging with the character after it: `<=` is Lt, Assign, `>=` is
\* Gt, Assign and `<>` is Lt, Gt.
C6_Comparison ==
    LET cur == AtCursor
    IN  /\ (Called /\ cur # <<>> /\ cur[1] \in {"<", ">"}) =>
              /\ last = <<Tok(IF cur[1] = "<" THEN "Lt" ELSE "Gt")>>
              /\ Rest = Tail(cur)
              /\ ContinuesWith(Tail(cur))
        /\ (status = "none" /\ code = <<"<", "=">>) =>
              out = <<Tok("Lt"), Tok("Assign")>>
        /\ (status = "none" /\ code = <<">", "=">>) =>
              out = <<Tok("Gt"), Tok("Assign")>>
        /\ (status = "none" /\ code = <<"<", ">">>) =>
              out = <<Tok("Lt"), Tok("Gt")>>

\* `<=` has been drained to two tokens
C6_Witness ==
    /\ code = <<"<", "=">>
    /\ status = "none"
    /\ Len(out) = 2

\* the characters of the dispatch table of next()
DispatchChars ==
    {"*", "!", "/", ">", "<", "-", "+", ",", "=", ";", "(", ")", "{", "}"}

\* C7: when the character at the cursor, whitespace skipped, is no
\* character of the dispatch table, no decimal digit and no ASCII letter,
\* next() returns Illegal and consumes that one character, and the calls
\* after it tokenize the rest of the input as usual: `@5` is Illegal, Int(5).
C7_Illegal ==
    LET cur == AtCursor
    IN  /\ (Called /\ cur # <<>>
                /\ cur[1] \notin DispatchChars \cup IsDigit \cup IsAsciiAlphabetic) =>
              /\ last = <<Tok("Illegal")>>
              /\ Rest = Tail(cur)
              /\ ContinuesWith(Tail(cur))
        /\ (status = "none" /\ code = <<"@", "5">>) =>
              out = <<Tok("Illegal"), TokenInt(<<"5">>)>>

\* `@5` has been drained to two tokens
C7_Witness ==
    /\ code = <<"@", "5">>
    /\ status = "none"
    /\ Len(out) = 2

\* C8: over an input made only of whitespace, the empty input included, the
\* first next() call signals the end of the sequence and no token is
\* produced.
C8_OnlyWhitespace ==
    (Called /\ \A i \in 1..Len(code) : code[i] \in SpecWhitespace) =>
        /\ status = "none"
        /\ last = <<>>
        /\ out = <<>>

\* next() has been called on an input of three whitespace characters
C8_Witness ==
    /\ code = <<" ", "\t", "\r">>
    /\ Called
    /\ out = <<>>

\* the drain is over: next() signalled the end of the sequence, or panicked
Over == status \in {"none", "panic"}

\* C9: draining an input of length N terminates: every next() call consumes
\* at least one character of the input or signals the end of the sequence,
\* the tokens produced are never more than the characters consumed, and the
\* drain is over once next() has been called N + 1 times.
C9_Termination ==
    /\ Len(out) <= Len(Consumed)
    /\ Len(Consumed) <= Len(code)
    /\ Called =>
          \/ Len(Rest) < Len(Unconsumed(prev))
          \/ status = "none" /\ last = <<>>
    /\ calls > Len(code) => Over

\* every character of `;;;` gave a token, and the call after them ended
\* the drain
C9_Witness ==
    /\ code = <<";", ";", ";">>
    /\ Len(out) = Len(code)
    /\ calls = Len(code) + 1
    /\ status = "none"

\* C10: once a next() call has signalled the end of the sequence, every
\* later call signals it too and no token is produced any more.
C10_ExhaustionIsTerminal ==
    [][status = "none" =>
          status' = "none" /\ last' = <<>> /\ out' = out]_vars

\* next() was called again after it had signalled the end of the sequence
\* of a drain that gave a token
C10_Witness ==
    /\ status = "none"
    /\ out # <<>>
    /\ calls > Len(out) + 1

\* the text at the cursor starts with a digit run whose value is above
\* usize::MAX
OverflowAtCursor ==
    LET cur == AtCursor
    IN  /\ Called
        /\ cur # <<>>
        /\ cur[1] \in IsDigit
        /\ ~FitsUsize(StripZeros(TakeWhile(cur, IsDigit)))

\* C11: when the value of a digit run is too large for a usize, next()
\* gives its caller an error outcome that is neither a token nor the end of
\* the sequence, and does not panic.
C11_OverflowIsAnError ==
    OverflowAtCursor => status \notin {"some", "none", "panic"}

\* ------------------------------------------------------------------------
\* Several lexer instances in one program
\* ------------------------------------------------------------------------

\* the instances besides the first: twin is over the same string as the
\* first, other over another string
PeerIds == {"twin", "other"}

TwoChunks == Char({"=", "!", "a", "5", " "})

OtherCodes == {<<"!", "=">>, <<"a", " ", "5">>}

\* Lexer::new for a further instance
newPeer(c) ==
    [code |-> c, chars |-> new(c), out |-> <<>>, last |-> <<>>,
     status |-> "new", calls |-> 0]

\* let a = Lexer::new(s); let b = Lexer::new(s); let c = Lexer::new(t)
InitTwo ==
    /\ code \in Concats(TwoChunks, MaxChunks)
    /\ chars = new(code)
    /\ prev = new(code)
    /\ out = <<>>
    /\ last = <<>>
    /\ status = "new"
    /\ calls = 0
    /\ \E t \in OtherCodes :
          peers = [i \in PeerIds |->
                      IF i = "twin" THEN newPeer(code) ELSE newPeer(t)]
    /\ repl = <<>>
    /\ shell = <<>>

\* PeerNext with the lookahead slot of Peekable shared by the instances
PeerNext_shared(i) ==
    /\ peers[i].status # "panic"
    /\ peers[i].calls < Len(peers[i].code) + 1 + ExtraCalls
    /\ LET q == peers[i]
           r == next([iter |-> q.chars.iter, peeked |-> chars.peeked])
       IN  peers' = [peers EXCEPT ![i] =
                        [code |-> q.code,
                         chars |-> r.p,
                         out |-> q.out \o r.ret,
                         last |-> r.ret,
                         status |-> IF r.panic THEN "panic"
                                    ELSE IF r.ret = <<>> THEN "none"
                                    ELSE "some",
                         calls |-> q.calls + 1]]
    /\ UNCHANGED <<lexer, repl, shell>>

\* one call of next() on the instance i
PeerNext(i) ==
    /\ peers[i].status # "panic"
    /\ peers[i].calls < Len(peers[i].code) + 1 + ExtraCalls
    /\ LET q == peers[i]
           r == next(q.chars)
       IN  peers' = [peers EXCEPT ![i] =
                        [code |-> q.code,
                         chars |-> r.p,
                         out |-> q.out \o r.ret,
                         last |-> r.ret,
                         status |-> IF r.panic THEN "panic"
                                    ELSE IF r.ret = <<>> THEN "none"
                                    ELSE "some",
                         calls |-> q.calls + 1]]
    /\ UNCHANGED <<lexer, repl, shell>>

TwinNext == PeerNext("twin")
OtherNext == PeerNext("other")

NextTwo == LexerNext \/ TwinNext \/ OtherNext

SpecTwo == InitTwo /\ [][NextTwo]_vars

RECURSIVE drain(_, _)
\* the loop `for token in lex.into_iter() { out.push(token) }` of
\* Repl::line: the Vec at the end of the loop, or a panic
drain(p, acc) ==
    LET r == next(p)
    IN  IF r.panic THEN [ret |-> acc, panic |-> TRUE]
        ELSE IF r.ret = <<>> THEN [ret |-> acc, panic |-> FALSE]
        ELSE drain(r.p, acc \o r.ret)

\* Repl::line
line(l) == drain(new(l), <<>>)

LineChunks == Char({"=", "!", "5"}) \cup {USIZE_MAX_PLUS_1}

Lines == Concats(LineChunks, MaxLineChunks)

\* no lexer is pulled step by step
NoLexer ==
    /\ code = <<>>
    /\ chars = new(code)
    /\ prev = new(code)
    /\ out = <<>>
    /\ last = <<>>
    /\ status = "new"
    /\ calls = 0
    /\ peers = <<>>

\* let repl = Repl::new()
InitRepl ==
    /\ NoLexer
    /\ repl = <<>>
    /\ shell = <<>>

RECURSIVE GivenUpTo(_)
\* the first n lines given to Repl::line, one after the other
GivenUpTo(n) == IF n = 0 THEN <<>> ELSE GivenUpTo(n - 1) \o repl[n].line

\* the last call of Repl::line panicked
ReplPanicked == IF repl = <<>> THEN FALSE ELSE repl[Len(repl)].panic

\* ReplLine with the lines gathered in a buffer that is never cleared
ReplLine_buffer(l) ==
    /\ Len(repl) < MaxLines
    /\ ~ReplPanicked
    /\ LET r == line(GivenUpTo(Len(repl)) \o l)
       IN  repl' = Append(repl, [line |-> l, ret |-> r.ret, panic |-> r.panic])
    /\ UNCHANGED <<lexer, peers, shell>>

\* one call repl.line(l); a panic unwinds the caller
ReplLine(l) ==
    /\ Len(repl) < MaxLines
    /\ ~ReplPanicked
    /\ LET r == line(l)
       IN  repl' = Append(repl, [line |-> l, ret |-> r.ret, panic |-> r.panic])
    /\ UNCHANGED <<lexer, peers, shell>>

ReplCall == \E l \in Lines : ReplLine(l)

NextRepl == ReplCall

SpecRepl == InitRepl /\ [][NextRepl]_vars

RECURSIVE Tokens(_)
\* the tokens of the text t: the first token of a lexer over t, then the
\* tokens of the text that lexer left unconsumed
Tokens(t) ==
    LET r == next(new(t))
    IN  IF r.panic \/ r.ret = <<>> THEN <<>>
        ELSE r.ret \o Tokens(Unconsumed(r.p))

RECURSIVE Panics(_)
\* tokenizing the text t runs into a panic
Panics(t) ==
    LET r == next(new(t))
    IN  IF r.panic THEN TRUE
        ELSE IF r.ret = <<>> THEN FALSE
        ELSE Panics(Unconsumed(r.p))

\* C13: Repl::line(l) returns the tokens of a fresh lexer over l, in order,
\* and carries nothing from one call to the next: what a call returns
\* depends on its own line only, so line("=") twice gives Assign and Assign,
\* never Equal.
C13_ReplLine ==
    /\ \A i \in 1..Len(repl) :
          /\ repl[i].panic = Panics(repl[i].line)
          /\ ~repl[i].panic => repl[i].ret = Tokens(repl[i].line)
    /\ \A i, j \in 1..Len(repl) :
          repl[i].line = repl[j].line =>
              repl[i].ret = repl[j].ret /\ repl[i].panic = repl[j].panic
    /\ \A i \in 1..Len(repl) :
          repl[i].line = <<"=">> => repl[i].ret = <<Tok("Assign")>>

\* line("=") was called twice and returned Assign each time
C13_Witness ==
    /\ Len(repl) = 2
    /\ repl[1].line = <<"=">>
    /\ repl[2].line = <<"=">>
    /\ repl[1].ret = <<Tok("Assign")>>
    /\ repl[2].ret = <<Tok("Assign")>>

\* the text the last next() call started from holds nothing but whitespace
OnlyWhitespaceLeft ==
    \A i \in 1..Len(Unconsumed(prev)) : Unconsumed(prev)[i] \in IsWhitespace

\* C14: next() signals the end of the sequence exactly when the unconsumed
\* input is empty or holds only whitespace, and returns a token otherwise.
C14_EndIffOnlyWhitespace ==
    Called => IF OnlyWhitespaceLeft THEN status = "none" ELSE status = "some"

\* the characters of the text t that make up the token k read at its start
Lexeme(k, t) ==
    CASE k.type = "Int" -> TakeWhile(t, IsDigit)
      [] k.type \in KeywordVariants \cup {"Identifier"} ->
            TakeWhile(t, IsAsciiAlphabetic)
      [] k.type \in {"Equal", "NotEqual"} -> SubSeq(t, 1, 2)
      [] OTHER -> SubSeq(t, 1, 1)

\* s ends with t
IsSuffix(t, s) ==
    Len(t) <= Len(s) /\ t = SubSeq(s, Len(s) - Len(t) + 1, Len(s))

\* C15: the cursor only moves forward, and a next() call that returns a
\* token consumes the whitespace run at the cursor, then the characters of
\* the token's lexeme, and nothing after them: the character that ended the
\* token stays unconsumed and is the first one the following call sees.
C15_ConsumesLexemeOnly ==
    LET before == Unconsumed(prev)
        ws == TakeWhile(before, IsWhitespace)
        cur == DropWhile(before, IsWhitespace)
    IN  /\ IsSuffix(Rest, before)
        /\ status = "some" =>
              /\ cur # <<>>
              /\ before = ws \o Lexeme(last[1], cur) \o Rest
              /\ Lexeme(last[1], cur) # <<>>
              /\ ContinuesWith(Rest)
              /\ Rest # <<>> =>
                    LET c == Rest[1]
                    IN  /\ last[1].type = "Int" => c \notin IsDigit
                        /\ last[1].type \in KeywordVariants \cup {"Identifier"}
                              => c \notin IsAsciiAlphabetic
                        /\ last[1].type \in {"Bang", "Assign"} => c # "="

\* `a` of `a=;` was returned and `=`, which ended it, is still to be read
C15_Witness ==
    /\ code = <<"a", "=", ";">>
    /\ out = <<Identifier(<<"a">>)>>
    /\ Rest = <<"=", ";">>
    /\ chars.peeked = << <<"=">> >>

\* ------------------------------------------------------------------------
\* Inputs over the whole of ASCII
\* ------------------------------------------------------------------------

\* the control characters U+0000..U+001F and U+007F, by their names where
\* a string cannot hold them
AsciiControl ==
    {"NUL", "SOH", "STX", "ETX", "EOT", "ENQ", "ACK", "BEL", "BS", "\t",
     "\n", VT, FF, "\r", "SO", "SI", "DLE", "DC1", "DC2", "DC3", "DC4",
     "NAK", "SYN", "ETB", "CAN", "EM", "SUB", "ESC", "FS", "GS", "RS", "US",
     "DEL"}

\* the characters U+0020..U+007E that are no letter and no digit, the
\* grave accent U+0060 by its name
AsciiPunctuation ==
    {" ", "!", "\"", "#", "$", "%", "&", "'", "(", ")", "*", "+", ",", "-",
     ".", "/", ":", ";", "<", "=", ">", "?", "@", "[", "\\", "]", "^", "_",
     "GRAVE", "{", "|", "}", "~"}

Ascii == AsciiControl \cup AsciiPunctuation \cup IsDigit \cup IsAsciiAlphabetic

\* what stands before and after the character looked at
AroundChunks == Char({"=", "a", " "})

\* one character of ASCII with at most MaxChunks - 1 chunks around it
AsciiInputs ==
    {a \o <<c>> \o b : a \in Concats(AroundChunks, MaxChunks - 2),
                       c \in Ascii,
                       b \in Concats(AroundChunks, MaxChunks - 2)}

InitChars ==
    /\ code \in AsciiInputs
    /\ chars = new(code)
    /\ prev = new(code)
    /\ out = <<>>
    /\ last = <<>>
    /\ status = "new"
    /\ calls = 0
    /\ peers = <<>>
    /\ repl = <<>>
    /\ shell = <<>>

SpecChars == InitChars /\ [][Next]_vars

\* next() skips the characters of W, and only them, without a token: it
\* signals the end when nothing else is left, and the first character
\* outside W gives Illegal, alone, unless it is an operator, a punctuation
\* character of the dispatch table, a digit or an ASCII letter
SkipsExactly(W) ==
    Called =>
        LET v == DropWhile(Unconsumed(prev), W)
        IN  IF v = <<>> THEN status = "none"
            ELSE IF v[1] \in DispatchChars \cup IsDigit \cup IsAsciiAlphabetic
            THEN /\ status = "some"
                 /\ last # <<Tok("Illegal")>>
                 /\ IsSuffix(Rest, Tail(v))
            ELSE /\ last = <<Tok("Illegal")>>
                 /\ Rest = Tail(v)

\* C16 as claimed: the characters skipped without a token are space, tab,
\* newline and carriage return, and every other character that is no
\* operator, punctuation, digit or letter, form feed and vertical tab
\* included, gives Illegal.
C16_SkipsFour == SkipsExactly(SpecWhitespace)

\* the whitespace of ASCII: U+0009..U+000D and U+0020
AsciiWhitespace == {"\t", "\n", VT, FF, "\r", " "}

\* C16 as amended: among the characters of ASCII, the ones skipped without
\* a token are space, tab, newline, vertical tab, form feed and carriage
\* return, and every other one that is no operator, punctuation, digit or
\* letter gives Illegal.
C16_SkipsAsciiWhitespace == SkipsExactly(AsciiWhitespace)

\* a form feed before `a` was skipped without a token
C16_Witness ==
    /\ code = <<FF, "a">>
    /\ status = "none"
    /\ out = <<Identifier(<<"a">>)>>

\* C17: whitespace is a token boundary: when the input is a, one whitespace
\* character, b, and neither a nor b holds a digit run above usize::MAX,
\* draining it gives the tokens of a followed by the tokens of b; `= =` is
\* Assign, Assign and not Equal.
C17_WhitespaceBoundary ==
    /\ Over =>
          \A i \in 1..Len(code) :
              LET a == SubSeq(code, 1, i - 1)
                  b == SubSeq(code, i + 1, Len(code))
              IN  (code[i] \in AsciiWhitespace /\ ~Panics(a) /\ ~Panics(b)) =>
                      /\ status = "none"
                      /\ out = Tokens(a) \o Tokens(b)
    /\ (status = "none" /\ code = <<"=", " ", "=">>) =>
          out = <<Tok("Assign"), Tok("Assign")>>

\* `= =` has been drained to two tokens
C17_Witness ==
    /\ code = <<"=", " ", "=">>
    /\ status = "none"
    /\ Len(out) = 2

\* ------------------------------------------------------------------------
\* Inputs with runs of `=`
\* ------------------------------------------------------------------------

EqChunks == {<<"=">>, <<"=", "=">>, <<"!">>, <<";">>, <<"a">>}

InitEq == InitOver(EqChunks)

SpecEq == InitEq /\ [][Next]_vars

\* the tokens of k characters `=`, paired from the left
EqualsTokens(k) ==
    [i \in 1..(k \div 2) |-> Tok("Equal")]
        \o (IF k % 2 = 1 THEN <<Tok("Assign")>> ELSE <<>>)

\* C18: `=` characters are paired from the left: a run of k of them gives
\* k / 2 Equal tokens, rounded down, and then one Assign when k is odd;
\* `!` followed by k of them gives NotEqual and then the tokens of the
\* k - 1 that remain. `===` is Equal, Assign and `!==` is NotEqual, Assign.
C18_GreedyPairs ==
    LET from == DropWhile(code, {";", "a"})
        bang == from # <<>> /\ from[1] = "!"
        run == TakeWhile(IF bang THEN Tail(from) ELSE from, {"="})
        after == DropWhile(IF bang THEN Tail(from) ELSE from, {"="})
        k == Len(run)
    IN  /\ (status = "none" /\ (bang => k >= 1)
                /\ \A i \in 1..Len(after) : after[i] \notin {"!", "="}) =>
              Produced({"Equal", "Assign", "NotEqual", "Bang"}) =
                  IF bang THEN <<Tok("NotEqual")>> \o EqualsTokens(k - 1)
                  ELSE EqualsTokens(k)
        /\ (status = "none" /\ code = <<"=", "=", "=">>) =>
              out = <<Tok("Equal"), Tok("Assign")>>
        /\ (status = "none" /\ code = <<"!", "=", "=">>) =>
              out = <<Tok("NotEqual"), Tok("Assign")>>

\* `!` and four `=` have been drained to NotEqual, Equal, Assign
C18_Witness ==
    /\ code = <<"!", "=", "=", "=", "=">>
    /\ status = "none"
    /\ out = <<Tok("NotEqual"), Tok("Equal"), Tok("Assign")>>

\* C19: an Identifier token carries a non-empty string of ASCII letters that
\* is none of the seven reserved words, and that string is the stretch of
\* the input it was read from.
C19_Identifiers ==
    /\ \A i \in 1..Len(out) :
          out[i].type = "Identifier" =>
              /\ out[i].text # <<>>
              /\ \A j \in 1..Len(out[i].text) :
                    out[i].text[j] \in IsAsciiAlphabetic
              /\ ReservedWord(out[i].text) = <<>>
    /\ (status = "some" /\ last[1].type = "Identifier") =>
          LET cur == DropWhile(Unconsumed(prev), IsWhitespace)
              start == Len(code) - Len(cur)
              n == Len(last[1].text)
          IN  /\ start + n <= Len(code)
              /\ last[1].text = SubSeq(code, start + 1, start + n)
              /\ Rest = SubSeq(code, start + n + 1, Len(code))

\* `letx` has been drained to one Identifier
C19_Witness ==
    /\ code = <<"l", "e", "t", "x">>
    /\ status = "none"
    /\ out = <<Identifier(code)>>

\* ------------------------------------------------------------------------
\* The shell: main of src/bin/repl.rs
\* ------------------------------------------------------------------------

PROMPT == ">>"

\* the derived Debug form of a token, as the pieces of one output line
Debug(t) ==
    IF t.type = "Identifier" THEN <<"Identifier(\"">> \o t.text \o <<"\")">>
    ELSE IF t.type = "Int" THEN <<"Int(">> \o t.text \o <<")">>
    ELSE <<t.type>>

\* one println!("{:?}", item) for every item of the vector, in order
PrintAll(ts) == [i \in 1..Len(ts) |-> Debug(ts[i])]

\* main before the loop: nothing printed, nothing read; the line last read
\* is kept as an Option
InitShell ==
    /\ NoLexer
    /\ repl = <<>>
    /\ shell = [pc |-> "prompt", stdout |-> <<>>, line |-> <<>>, reads |-> 0]

\* println!("{}", PROMPT) at the top of the loop body
ShellPrompt ==
    /\ shell # <<>>
    /\ shell.pc = "prompt"
    /\ shell.reads < MaxReads
    /\ shell' = [shell EXCEPT !.pc = "read",
                              !.stdout = Append(@, <<PROMPT>>)]
    /\ UNCHANGED <<lexer, peers, repl>>

\* lines().next() is Some(Ok(l)): the tokens of repl.line(l) are printed one
\* per line; a panic inside repl.line ends the process with nothing printed
ShellReadLine(l) ==
    /\ shell # <<>>
    /\ shell.pc = "read"
    /\ LET r == line(l)
       IN  shell' = [shell EXCEPT !.pc = IF r.panic THEN "aborted"
                                         ELSE "prompt",
                                  !.line = <<l>>,
                                  !.reads = @ + 1,
                                  !.stdout = IF r.panic THEN @
                                             ELSE @ \o PrintAll(r.ret)]
    /\ UNCHANGED <<lexer, peers, repl>>

ShellRead == \E l \in Lines : ShellReadLine(l)

\* lines().next() is Some(Err(_)) or None: the if let does not match
ShellReadFail ==
    /\ shell # <<>>
    /\ shell.pc = "read"
    /\ shell' = [shell EXCEPT !.pc = "prompt",
                              !.line = <<>>,
                              !.reads = @ + 1]
    /\ UNCHANGED <<lexer, peers, repl>>

NextShell == ShellPrompt \/ ShellRead \/ ShellReadFail

SpecShell == InitShell /\ [][NextShell]_vars

\* C20: the shell prints the prompt before every read; after a line is read
\* it prints that line's tokens one per line in order and is back at the
\* prompt; after a failed read it prints nothing and is back at the prompt;
\* no line makes it stop.
C20_ShellLoop ==
    [][ /\ shell'.pc # "aborted"
        /\ shell.pc = "read" =>
              /\ shell.stdout # <<>>
              /\ shell.stdout[Len(shell.stdout)] = <<PROMPT>>
              /\ shell'.pc = "prompt"
              /\ shell'.stdout = shell.stdout \o
                    (IF shell'.line = <<>> THEN <<>>
                     ELSE PrintAll(Tokens(shell'.line[1])))
        /\ shell.pc = "prompt" =>
              /\ shell'.pc = "read"
              /\ shell'.stdout = Append(shell.stdout, <<PROMPT>>) ]_vars

\* C20 without its last clause: what the loop does with lines that lex
C20_ShellLoopOnLexableLines ==
    [][ /\ shell.pc = "read" =>
              /\ shell.stdout # <<>>
              /\ shell.stdout[Len(shell.stdout)] = <<PROMPT>>
              /\ (shell'.line = <<>> \/ ~Panics(shell'.line[1])) =>
                    /\ shell'.pc = "prompt"
                    /\ shell'.stdout = shell.stdout \o
                          (IF shell'.line = <<>> THEN <<>>
                           ELSE PrintAll(Tokens(shell'.line[1])))
        /\ shell.pc = "prompt" =>
              /\ shell'.pc = "read"
              /\ shell'.stdout = Append(shell.stdout, <<PROMPT>>) ]_vars

====
